---- MODULE Spec2Model ----
(***************************************************************************)
(* Expense tracker (src/app.py): the SQL store of expense records          *)
(* (gastos) and category names (categorias), the request handlers that     *)
(* change it, and the pure helpers they use (amount parser, date           *)
(* normaliser, recurrence expander, dashboard aggregator).                 *)
(*                                                                         *)
(* Text is a sequence of one-character strings, so that strip(), lower(),  *)
(* slicing, strptime and float() are computed character by character.      *)
(* An optional text (a form field, a JSON key) is None or Some(text).      *)
(* Amounts are exact integers in cents: the binary rounding of Python      *)
(* floats is not modelled, and amount texts carry at most two fractional   *)
(* digits. Years are 1000..9999, where strftime("%Y") yields four digits   *)
(* on every platform.                                                      *)
(***************************************************************************)
EXTENDS Integers, Sequences, FiniteSets, TLC

VARIABLES gastos, categorias, backend, seq, nreq, last, result, view, start, expanded

vars == <<gastos, categorias, backend, seq, nreq, last, result, view, start, expanded>>

----------------------------------------------------------------------------
(* Python values *)

None == <<>>
Some(t) == <<t>>

\* `not x` for an optional text: None and "" are both falsy
Falsy(o) == o = None \/ o[1] = <<>>

\* `x or dflt`
OrElse(o, dflt) == IF Falsy(o) THEN dflt ELSE o[1]

UpperChars == <<"A","B","C","D","E","F","G","H","I","J","K","L","M",
                "N","O","P","Q","R","S","T","U","V","W","X","Y","Z">>
LowerChars == <<"a","b","c","d","e","f","g","h","i","j","k","l","m",
                "n","o","p","q","r","s","t","u","v","w","x","y","z">>
DigitChars == <<"0","1","2","3","4","5","6","7","8","9">>
Whitespace == {" ", "\t", "\n", "\r"}

IsDigit(c) == \E i \in 1..10 : DigitChars[i] = c
DigitVal(c) == (CHOOSE i \in 1..10 : DigitChars[i] = c) - 1

LowerChar(c) == IF \E i \in 1..26 : UpperChars[i] = c
                THEN LowerChars[CHOOSE i \in 1..26 : UpperChars[i] = c]
                ELSE c

\* str.lower()
Lower(s) == [i \in 1..Len(s) |-> LowerChar(s[i])]

\* str.strip()
Strip(s) ==
  LET keep == {i \in 1..Len(s) : s[i] \notin Whitespace}
  IN IF keep = {} THEN <<>>
     ELSE LET lo == CHOOSE i \in keep : \A j \in keep : i <= j
              hi == CHOOSE i \in keep : \A j \in keep : i >= j
          IN SubSeq(s, lo, hi)

\* s[:n]
Prefix(s, n) == SubSeq(s, 1, IF Len(s) < n THEN Len(s) ELSE n)

\* the characters of s that satisfy keep, in order (re.sub of the others by "")
RECURSIVE KeepChars(_, _)
KeepChars(s, allowed) ==
  IF s = <<>> THEN <<>>
  ELSE (IF Head(s) \in allowed THEN <<Head(s)>> ELSE <<>>) \o KeepChars(Tail(s), allowed)

\* str.replace(a, b) for a one-character a and b a text
RECURSIVE Replace(_, _, _)
Replace(s, a, b) ==
  IF s = <<>> THEN <<>>
  ELSE (IF Head(s) = a THEN b ELSE <<Head(s)>>) \o Replace(Tail(s), a, b)

\* the fields of s between the occurrences of sep
RECURSIVE SplitAt(_, _, _, _)
SplitAt(s, sep, i, cur) ==
  IF i > Len(s) THEN <<cur>>
  ELSE IF s[i] = sep THEN <<cur>> \o SplitAt(s, sep, i + 1, <<>>)
  ELSE SplitAt(s, sep, i + 1, Append(cur, s[i]))

\* int() of a text of digits (a leading space, as %d allows, counts for nothing)
RECURSIVE DigitsVal(_, _)
DigitsVal(s, acc) ==
  IF s = <<>> THEN acc
  ELSE DigitsVal(Tail(s), IF IsDigit(Head(s)) THEN acc * 10 + DigitVal(Head(s)) ELSE acc)

----------------------------------------------------------------------------
(* datetime *)

MINYEAR == 1
MAXYEAR == 9999

IsLeap(y) == (y % 4 = 0 /\ y % 100 # 0) \/ y % 400 = 0

DaysInMonth(y, m) ==
  IF m = 2 THEN (IF IsLeap(y) THEN 29 ELSE 28)
  ELSE IF m \in {4, 6, 9, 11} THEN 30 ELSE 31

MkDate(y, m, d) == [year |-> y, month |-> m, day |-> d]

\* datetime(y, m, d) raises ValueError unless this holds
ValidDate(y, m, d) ==
  /\ y >= MINYEAR /\ y <= MAXYEAR
  /\ m >= 1 /\ m <= 12
  /\ d >= 1 /\ d <= DaysInMonth(y, m)

\* d - timedelta(days=1)
MinusOneDay(d) ==
  IF d.day > 1 THEN MkDate(d.year, d.month, d.day - 1)
  ELSE IF d.month > 1 THEN MkDate(d.year, d.month - 1, DaysInMonth(d.year, d.month - 1))
  ELSE MkDate(d.year - 1, 12, 31)

\* the strptime directives %Y, %m, %d as the regular expressions of _strptime
FieldY(f) == Len(f) = 4 /\ \A i \in 1..4 : IsDigit(f[i])
FieldM(f) ==
  \/ Len(f) = 1 /\ IsDigit(f[1]) /\ f[1] # "0"
  \/ Len(f) = 2 /\ f[1] = "1" /\ f[2] \in {"0", "1", "2"}
  \/ Len(f) = 2 /\ f[1] = "0" /\ IsDigit(f[2]) /\ f[2] # "0"
FieldD(f) ==
  \/ Len(f) = 1 /\ IsDigit(f[1]) /\ f[1] # "0"
  \/ Len(f) = 2 /\ f[1] = "3" /\ f[2] \in {"0", "1"}
  \/ Len(f) = 2 /\ f[1] \in {"1", "2"} /\ IsDigit(f[2])
  \/ Len(f) = 2 /\ f[1] \in {"0", " "} /\ IsDigit(f[2]) /\ f[2] # "0"

\* datetime.strptime(s, "%Y-%m-%d"): Some(date), or None where it raises
StrptimeYMD(s) ==
  LET p == SplitAt(s, "-", 1, <<>>)
  IN IF Len(p) = 3 /\ FieldY(p[1]) /\ FieldM(p[2]) /\ FieldD(p[3])
        /\ ValidDate(DigitsVal(p[1], 0), DigitsVal(p[2], 0), DigitsVal(p[3], 0))
     THEN Some(MkDate(DigitsVal(p[1], 0), DigitsVal(p[2], 0), DigitsVal(p[3], 0)))
     ELSE None

\* datetime.strptime(s, "%d/%m/%Y")
StrptimeDMY(s) ==
  LET p == SplitAt(s, "/", 1, <<>>)
  IN IF Len(p) = 3 /\ FieldD(p[1]) /\ FieldM(p[2]) /\ FieldY(p[3])
        /\ ValidDate(DigitsVal(p[3], 0), DigitsVal(p[2], 0), DigitsVal(p[1], 0))
     THEN Some(MkDate(DigitsVal(p[3], 0), DigitsVal(p[2], 0), DigitsVal(p[1], 0)))
     ELSE None

DigitOf(n) == DigitChars[(n % 10) + 1]
Pad2(n) == <<DigitOf(n \div 10), DigitOf(n)>>
Pad4(n) == <<DigitOf(n \div 1000), DigitOf(n \div 100)>> \o Pad2(n)

\* d.strftime("%Y-%m-%d")
StrftimeIso(d) == Pad4(d.year) \o <<"-">> \o Pad2(d.month) \o <<"-">> \o Pad2(d.day)

\* d.strftime("%Y-%m")
StrftimeYM(d) == Pad4(d.year) \o <<"-">> \o Pad2(d.month)

----------------------------------------------------------------------------
(* Value parser, date normaliser, recurrence expander *)

\* a value handed to the amount parser: None, a JSON number (in cents) or a text
NoneVal == [kind |-> "none", num |-> 0, str |-> <<>>]
NumVal(n) == [kind |-> "num", num |-> n, str |-> <<>>]
StrVal(t) == [kind |-> "str", num |-> 0, str |-> t]

\* request.form.get(name) as such a value
FormVal(o) == IF o = None THEN NoneVal ELSE StrVal(o[1])

\* the first two fractional digits as cents
FracCents(f) ==
  IF Len(f) = 0 THEN 0
  ELSE IF Len(f) = 1 THEN DigitVal(f[1]) * 10
  ELSE DigitVal(f[1]) * 10 + DigitVal(f[2])

\* float(s) in cents for a text of digits, dots and minus signs:
\* Some(cents), or None where float raises ValueError
PyFloat(s) ==
  LET neg == s # <<>> /\ Head(s) = "-"
      body == IF neg THEN Tail(s) ELSE s
      p == SplitAt(body, ".", 1, <<>>)
      digits == Len(p[1]) + (IF Len(p) = 2 THEN Len(p[2]) ELSE 0)
      abs == DigitsVal(p[1], 0) * 100 + (IF Len(p) = 2 THEN FracCents(p[2]) ELSE 0)
  IN IF Len(p) <= 2 /\ digits >= 1 /\ \A i \in 1..Len(p) : \A j \in 1..Len(p[i]) : IsDigit(p[i][j])
     THEN Some(IF neg THEN 0 - abs ELSE abs)
     ELSE None

AmountChars == {"0","1","2","3","4","5","6","7","8","9",",",".","-"}

parse_brl_to_float(val) ==
  IF val.kind = "none" THEN 0
  ELSE IF val.kind = "num" THEN val.num
  ELSE LET s0 == KeepChars(Strip(val.str), AmountChars)
           s == IF \E i \in 1..Len(s0) : s0[i] = ","
                THEN Replace(Replace(s0, ".", <<>>), ",", <<".">>)
                ELSE Replace(s0, ",", <<".">>)
           f == PyFloat(s)
       IN IF f = None THEN 0 ELSE f[1]

normalize_date(s) ==
  IF Falsy(s) THEN None
  ELSE LET t == Prefix(Strip(s[1]), 10)
       IN IF StrptimeYMD(t) # None THEN Some(StrftimeIso(StrptimeYMD(t)[1]))
          ELSE IF StrptimeDMY(t) # None THEN Some(StrftimeIso(StrptimeDMY(t)[1]))
          ELSE None

\* Some(the last day of month m of year y), or None where datetime(y + 1, 1, 1) raises
last_day(y, m) ==
  LET nxt == IF m = 12 THEN MkDate(y + 1, 1, 1) ELSE MkDate(y, m + 1, 1)
  IN IF ValidDate(nxt.year, nxt.month, nxt.day) THEN Some(MinusOneDay(nxt)) ELSE None

Raised == [raised |-> TRUE, dates |-> <<>>]

\* MonthLoop with range(month, 12): December is left out
RECURSIVE MonthLoopToNovember(_, _, _, _)
MonthLoopToNovember(year, day, m, dates) ==
  IF m >= 12 THEN [raised |-> FALSE, dates |-> dates]
  ELSE LET ld == last_day(year, m)
       IN IF ld = None THEN Raised
          ELSE LET use == IF day < ld[1].day THEN day ELSE ld[1].day
               IN IF ~ValidDate(year, m, use) THEN Raised
                  ELSE MonthLoopToNovember(year, day, m + 1, Append(dates, MkDate(year, m, use)))

\* the loop over range(month, 13), from m on
RECURSIVE MonthLoop(_, _, _, _)
MonthLoop(year, day, m, dates) ==
  IF m >= 13 THEN [raised |-> FALSE, dates |-> dates]
  ELSE LET ld == last_day(year, m)
       IN IF ld = None THEN Raised
          ELSE LET use == IF day < ld[1].day THEN day ELSE ld[1].day
               IN IF ~ValidDate(year, m, use) THEN Raised
                  ELSE MonthLoop(year, day, m + 1, Append(dates, MkDate(year, m, use)))

\* the dates returned, or raised where an exception leaves the function
monthly_until_year_end(date_iso) ==
  IF Falsy(date_iso) THEN [raised |-> FALSE, dates |-> <<>>]
  ELSE LET d == StrptimeYMD(date_iso[1])
       IN IF d = None THEN [raised |-> FALSE, dates |-> <<>>]
          ELSE MonthLoop(d[1].year, d[1].day, d[1].month, <<>>)

----------------------------------------------------------------------------
(* The store: table gastos (id -> row) and table categorias (set of names) *)

EmAberto == <<"E","m"," ","a","b","e","r","t","o">>
Pago == <<"P","a","g","o">>
SemCategoria == <<"S","e","m"," ","c","a","t","e","g","o","r","i","a">>
FixoLower == <<"f","i","x","o">>

Gasto(data, categoria, descricao, valor, status) ==
  [data |-> data, categoria |-> categoria, descricao |-> descricao,
   valor |-> valor, status |-> status]

MaxOf(S) == CHOOSE x \in S : \A y \in S : y <= x

\* the id the database gives the next row of gastos: SQLite's rowid is one more
\* than the largest in the table, PostgreSQL draws from a sequence
NextId(g, s) == IF backend = "sqlite" THEN MaxOf(DOMAIN g \cup {0}) + 1 ELSE s + 1

\* db.add of each row of recs in turn, then db.commit()
RECURSIVE InsertAll(_, _, _)
InsertAll(g, s, recs) ==
  IF recs = <<>> THEN [gastos |-> g, seq |-> s]
  ELSE LET id == NextId(g, s)
       IN InsertAll(g @@ (id :> Head(recs)),
                    IF backend = "sqlite" THEN s ELSE id,
                    Tail(recs))

RECURSIVE SeqToSet(_)
SeqToSet(s) == IF s = <<>> THEN {} ELSE {Head(s)} \cup SeqToSet(Tail(s))

\* the rows the import adds, for the items of gastos_raw in order
RECURSIVE LegacyRows(_)
LegacyRows(items) ==
  IF items = <<>> THEN <<>>
  ELSE LET g == Head(items)
           data_iso == normalize_date(g.data)
       IN (IF Falsy(data_iso) THEN <<>>
           ELSE <<Gasto(StrptimeYMD(data_iso[1])[1],
                        OrElse(g.categoria, SemCategoria),
                        OrElse(g.descricao, <<>>),
                        parse_brl_to_float(g.valor),
                        OrElse(g.status, EmAberto))>>)
          \o LegacyRows(Tail(items))

\* the store after import_legacy_if_empty() on an empty database
import_legacy_if_empty(file) ==
  IF ~file.exists THEN [gastos |-> <<>>, categorias |-> {}, seq |-> 0]
  ELSE LET gastos_raw == file.gastos
           categorias_raw == IF file.isdict THEN file.categorias ELSE <<>>
           nomes == {c \in SeqToSet(categorias_raw) : c # <<>>}
                    \cup {Strip(OrElse(g.categoria, <<>>)) :
                            g \in {x \in SeqToSet(gastos_raw) : ~Falsy(x.categoria)}}
           ins == InsertAll(<<>>, 0, LegacyRows(gastos_raw))
       IN [gastos |-> ins.gastos, categorias |-> {x \in nomes : x # <<>>}, seq |-> ins.seq]

----------------------------------------------------------------------------
(* Request handlers: each yields the store after the request and its outcome *)
(*   ok        the success response (flash "success"/"info", redirect)      *)
(*   rejected  a validation warning, nothing written                        *)
(*   notfound  "Item nao encontrado."                                       *)
(*   render    a page is rendered                                           *)
(*   error     an exception leaves the handler (HTTP 500)                   *)

Outcome(g, c, s, r) == [gastos |-> g, categorias |-> c, seq |-> s, result |-> r]
Same(r) == Outcome(gastos, categorias, seq, r)

\* the rows db.add()ed for the dates ds
NewRows(ds, categoria, descricao, valor) ==
  [i \in 1..Len(ds) |-> Gasto(ds[i], categoria, descricao, valor, EmAberto)]

adicionar(method, form) ==
  IF method = "GET" THEN Same("render")
  ELSE LET data == form.data
           categoria == form.categoria
           descricao == OrElse(form.descricao, <<>>)
           valor == parse_brl_to_float(FormVal(form.valor))
           iso == normalize_date(data)
       IN IF Falsy(data) \/ Falsy(categoria) THEN Same("rejected")
          ELSE IF Falsy(iso) THEN Same("rejected")
          ELSE LET cats == categorias \cup {categoria[1]}
                   replicate == form.replicar = Some(<<"1">>)
                                \/ Lower(Strip(categoria[1])) = FixoLower
                   exp == monthly_until_year_end(iso)
                   ds == IF replicate THEN exp.dates ELSE <<StrptimeYMD(iso[1])[1]>>
                   ins == InsertAll(gastos, seq, NewRows(ds, categoria[1], descricao, valor))
               IN IF replicate /\ exp.raised
                  THEN Outcome(gastos, cats, seq, "error")
                  ELSE Outcome(ins.gastos, cats, ins.seq, "ok")

\* EditedRow building a new row, whose status is the column default
EditedRowDefaultStatus(old, iso, form) ==
  Gasto(StrptimeYMD(iso[1])[1], form.categoria[1], OrElse(form.descricao, <<>>),
        parse_brl_to_float(FormVal(form.valor)), EmAberto)

\* the row old after the assignments of lines 259 to 262
EditedRow(old, iso, form) ==
  [old EXCEPT !.data = StrptimeYMD(iso[1])[1],
              !.categoria = form.categoria[1],
              !.descricao = OrElse(form.descricao, <<>>),
              !.valor = parse_brl_to_float(FormVal(form.valor))]

\* a missing category is NULL in a NOT NULL column: the commit raises and the
\* session is rolled back
editar(method, gid, form) ==
  IF gid \notin DOMAIN gastos THEN Same("notfound")
  ELSE IF method = "GET" THEN Same("render")
  ELSE LET iso == normalize_date(form.data)
       IN IF Falsy(iso) THEN Same("rejected")
          ELSE IF form.categoria = None THEN Same("error")
          ELSE Outcome([gastos EXCEPT ![gid] = EditedRow(gastos[gid], iso, form)],
                       categorias \cup {form.categoria[1]}, seq, "ok")

\* excluir without the test of line 284: db.delete(None) raises
excluirUnchecked(gid) ==
  IF gid \notin DOMAIN gastos THEN Same("error")
  ELSE Outcome([id \in DOMAIN gastos \ {gid} |-> gastos[id]], categorias, seq, "ok")

excluir(gid) ==
  IF gid \notin DOMAIN gastos THEN Same("notfound")
  ELSE Outcome([id \in DOMAIN gastos \ {gid} |-> gastos[id]], categorias, seq, "ok")

\* the status line 300 assigns
ToggleStatus(status) == IF OrElse(Some(status), EmAberto) # Pago THEN Pago ELSE EmAberto

toggle_pago(gid) ==
  IF gid \notin DOMAIN gastos THEN Same("notfound")
  ELSE Outcome([gastos EXCEPT ![gid].status = ToggleStatus(gastos[gid].status)],
               categorias, seq, "ok")

----------------------------------------------------------------------------
(* The dashboard aggregator. A dict is the sequence of its <<key, value>>   *)
(* items in insertion order.                                               *)

PagoLower == <<"p","a","g","o">>

\* db.query(Gasto).all(): the rows, by id
RECURSIVE Rows(_)
Rows(g) ==
  IF DOMAIN g = {} THEN <<>>
  ELSE LET id == CHOOSE i \in DOMAIN g : \A j \in DOMAIN g : i <= j
       IN <<g[id]>> \o Rows([j \in DOMAIN g \ {id} |-> g[j]])

\* d.get(k, dflt)
DictGet(d, k, dflt) ==
  IF \E i \in 1..Len(d) : d[i][1] = k
  THEN d[CHOOSE i \in 1..Len(d) : d[i][1] = k][2]
  ELSE dflt

\* d[k] = v
DictPut(d, k, v) ==
  IF \E i \in 1..Len(d) : d[i][1] = k
  THEN [i \in 1..Len(d) |-> IF d[i][1] = k THEN <<k, v>> ELSE d[i]]
  ELSE Append(d, <<k, v>>)

\* ord(c) of the characters of a "YYYY-MM" key
CharOrd(c) == IF IsDigit(c) THEN 48 + DigitVal(c) ELSE 45

\* a < b for str
RECURSIVE TextLess(_, _)
TextLess(a, b) ==
  IF b = <<>> THEN FALSE
  ELSE IF a = <<>> THEN TRUE
  ELSE IF Head(a) = Head(b) THEN TextLess(Tail(a), Tail(b))
  ELSE CharOrd(Head(a)) < CharOrd(Head(b))

\* the stable sorts of sorted(): an item goes before the first item it precedes
RECURSIVE InsertAscKey(_, _)
InsertAscKey(sorted, x) ==
  IF sorted = <<>> THEN <<x>>
  ELSE IF TextLess(x[1], Head(sorted)[1]) THEN <<x>> \o sorted
  ELSE <<Head(sorted)>> \o InsertAscKey(Tail(sorted), x)

RECURSIVE InsertDescValue(_, _)
InsertDescValue(sorted, x) ==
  IF sorted = <<>> THEN <<x>>
  ELSE IF x[2] > Head(sorted)[2] THEN <<x>> \o sorted
  ELSE <<Head(sorted)>> \o InsertDescValue(Tail(sorted), x)

\* sorted(d.items())
RECURSIVE SortAscKey(_, _)
SortAscKey(items, sorted) ==
  IF items = <<>> THEN sorted
  ELSE SortAscKey(Tail(items), InsertAscKey(sorted, Head(items)))

\* sorted(d.items(), key=lambda kv: kv[1], reverse=True)
RECURSIVE SortDescValue(_, _)
SortDescValue(items, sorted) ==
  IF items = <<>> THEN sorted
  ELSE SortDescValue(Tail(items), InsertDescValue(sorted, Head(items)))

NoView ==
  [total_mes |-> 0, total_ano |-> 0, totais_mes |-> <<>>, totais_categoria |-> <<>>,
   total_mes_pago |-> 0, total_mes_aberto |-> 0, qtd_mes_pago |-> 0, qtd_mes_aberto |-> 0]

\* the tests of lines 166, 168 and 171
InYear(r, now) == r.data.year = now.year

\* InMonth without the enclosing test of the year
InMonthAnyYear(r, now) == r.data.month = now.month

InMonth(r, now) == InYear(r, now) /\ r.data.month = now.month
IsPago(r) == Lower(OrElse(Some(r.status), EmAberto)) = PagoLower

\* the key of totais_categoria a row is added under
CategoriaKey(r) == r.categoria

\* one pass of the loop over rows
DashStep(acc, r, now) ==
  LET valor == r.valor
      ym == StrftimeYM(r.data)
      pago == InMonth(r, now) /\ IsPago(r)
      aberto == InMonth(r, now) /\ ~IsPago(r)
  IN [total_mes |-> acc.total_mes + (IF InMonth(r, now) THEN valor ELSE 0),
      total_ano |-> acc.total_ano + (IF InYear(r, now) THEN valor ELSE 0),
      totais_mes |-> DictPut(acc.totais_mes, ym, DictGet(acc.totais_mes, ym, 0) + valor),
      totais_categoria |-> DictPut(acc.totais_categoria, CategoriaKey(r),
                                   DictGet(acc.totais_categoria, CategoriaKey(r), 0) + valor),
      total_mes_pago |-> acc.total_mes_pago + (IF pago THEN valor ELSE 0),
      total_mes_aberto |-> acc.total_mes_aberto + (IF aberto THEN valor ELSE 0),
      qtd_mes_pago |-> acc.qtd_mes_pago + (IF pago THEN 1 ELSE 0),
      qtd_mes_aberto |-> acc.qtd_mes_aberto + (IF aberto THEN 1 ELSE 0)]

RECURSIVE DashLoop(_, _, _)
DashLoop(rows, now, acc) ==
  IF rows = <<>> THEN acc
  ELSE DashLoop(Tail(rows), now, DashStep(acc, Head(rows), now))

SortMes(d) == SortAscKey(d, <<>>)
\* SortCategoria without reverse=True, by the same insertion as InsertDescValue
RECURSIVE InsertAscValue(_, _)
InsertAscValue(sorted, x) ==
  IF sorted = <<>> THEN <<x>>
  ELSE IF x[2] < Head(sorted)[2] THEN <<x>> \o sorted
  ELSE <<Head(sorted)>> \o InsertAscValue(Tail(sorted), x)

RECURSIVE SortAscValue(_, _)
SortAscValue(items, sorted) ==
  IF items = <<>> THEN sorted
  ELSE SortAscValue(Tail(items), InsertAscValue(sorted, Head(items)))

SortCategoriaAscending(d) == SortAscValue(d, <<>>)

SortCategoria(d) == SortDescValue(d, <<>>)

\* the view data handed to dashboard.html for the rows g at the time now
dashboard(g, now) ==
  LET acc == DashLoop(Rows(g), now, NoView)
  IN [acc EXCEPT !.totais_mes = SortMes(acc.totais_mes),
                 !.totais_categoria = SortCategoria(acc.totais_categoria)]

----------------------------------------------------------------------------
(* Inputs *)

\* how many requests a run makes, and the ids a request may address
MaxOps == 2
MaxGid == 3

TLazer == <<"L","a","z","e","r">>
TLazerPadded == <<"L","a","z","e","r"," ">>
TFixoPadded == <<"F","i","x","o"," ">>
TFixo == <<"F","i","x","o">>
TCasa == <<"C","a","s","a">>
TX == <<"x">>

\* gastos.json: the items of "gastos"
ItemA == [data |-> Some(<<"0","5","/","1","0","/","2","0","2","4">>), categoria |-> Some(TLazerPadded), descricao |-> Some(TX),
          valor |-> StrVal(<<"R","$"," ","1",".","2","3","4",",","5","6">>), status |-> Some(PagoLower)]
ItemB == [data |-> Some(<<"2","0","2","3","-","1","0","-","0","5">>), categoria |-> None, descricao |-> None,
          valor |-> NumVal(1000), status |-> None]
ItemC == [data |-> Some(<<"2","0","2","4","-","1","3","-","0","1">>), categoria |-> Some(TCasa), descricao |-> None,
          valor |-> StrVal(<<"5">>), status |-> None]
ItemD == [data |-> Some(<<"2","0","2","4","-","1","0","-","3","1">>), categoria |-> Some(TFixo), descricao |-> None,
          valor |-> StrVal(<<"1",",","5">>), status |-> Some(Pago)]
ItemE == [data |-> Some(<<"2","0","2","4","-","1","2","-","1","0","T","0","8",":","0","0",":","0","0">>), categoria |-> Some(TCasa), descricao |-> Some(TX),
          valor |-> StrVal(<<"2",",","5","0">>), status |-> Some(EmAberto)]

\* gastos.json: absent, a list of items, or a dict of "gastos" and "categorias"
LegacyFiles ==
  { [exists |-> FALSE, isdict |-> FALSE, categorias |-> <<>>, gastos |-> <<>>],
    [exists |-> TRUE, isdict |-> FALSE, categorias |-> <<>>, gastos |-> <<ItemA, ItemB, ItemC>>],
    [exists |-> TRUE, isdict |-> TRUE, categorias |-> <<TFixo, <<>>, TCasa>>, gastos |-> <<ItemD, ItemE>>],
    [exists |-> TRUE, isdict |-> TRUE, categorias |-> <<TLazer>>, gastos |-> <<>>] }

Backends == {"sqlite", "postgres"}

Form(data, categoria, descricao, valor, replicar) ==
  [data |-> data, categoria |-> categoria, descricao |-> descricao,
   valor |-> valor, replicar |-> replicar]

EmptyForm == Form(None, None, None, None, None)

\* complete submissions
FormSlash == Form(Some(<<"3","1","/","1","0","/","2","0","2","4">>), Some(TLazer), Some(TX), Some(<<"R","$"," ","2",",","5","0">>), None)
FormFixo == Form(Some(<<"2","0","2","4","-","1","0","-","3","1">>), Some(TFixoPadded), None, Some(<<"1","0">>), None)
FormDec == Form(Some(<<"2","0","2","4","-","1","2","-","1","0">>), Some(TCasa), None, Some(<<"a","b","c">>), Some(<<"1">>))
FormMaxYear == Form(Some(<<"9","9","9","9","-","1","2","-","1","0">>), Some(TLazer), Some(TX), Some(<<"R","$"," ","2",",","5","0">>), None)
FormMaxYearRep == [FormMaxYear EXCEPT !.replicar = Some(<<"1">>)]
FormJan == Form(Some(<<" ","3","1","/","0","1","/","2","0","2","4"," ">>), Some(TLazer), None, Some(<<"1","0","0">>), Some(<<"1">>))

\* FormSlash with one field missing, empty or invalid
IncompleteForms ==
  { [FormSlash EXCEPT !.data = None],
    [FormSlash EXCEPT !.data = Some(<<>>)],
    [FormSlash EXCEPT !.data = Some(<<"3","0","/","0","2","/","2","0","2","4">>)],
    [FormSlash EXCEPT !.categoria = None],
    [FormSlash EXCEPT !.categoria = Some(<<>>)],
    [FormSlash EXCEPT !.valor = None],
    [FormSlash EXCEPT !.valor = Some(<<>>)] }

AddForms == {FormSlash, FormFixo, FormDec, FormJan, FormMaxYear, FormMaxYearRep} \cup IncompleteForms
EditForms == {FormSlash, FormMaxYear} \cup IncompleteForms

Gids == 1..MaxGid

\* datetime.now(), as far as the dashboard reads it
Now(y, m) == [year |-> y, month |-> m]
Nows == {Now(2024, 10), Now(2024, 12), Now(2023, 10)}

\* the start dates of the expander's own specification
ExpandYears == {2023, 2024, 9999}
StartDates ==
  {MkDate(y, m, d) : y \in ExpandYears, m \in 1..12, d \in 1..31} 

----------------------------------------------------------------------------
(* The state machine *)

Request(op, method, gid, form, now) ==
  [op |-> op, method |-> method, gid |-> gid, form |-> form, now |-> now]

NoRequest == Request("none", "GET", 0, EmptyForm, Now(0, 0))
NotRun == [run |-> FALSE, raised |-> FALSE, dates |-> <<>>]

\* the process has started: tables created, gastos.json imported
Init ==
  /\ backend \in Backends
  /\ \E file \in LegacyFiles :
       LET o == import_legacy_if_empty(file)
       IN gastos = o.gastos /\ categorias = o.categorias /\ seq = o.seq
  /\ nreq = 0
  /\ last = NoRequest
  /\ result = "none"
  /\ view = NoView
  /\ start = <<>>
  /\ expanded = NotRun

\* one request handled to completion
Respond(o, req, v) ==
  /\ gastos' = o.gastos
  /\ categorias' = o.categorias
  /\ seq' = o.seq
  /\ result' = o.result
  /\ last' = req
  /\ view' = v
  /\ nreq' = nreq + 1
  /\ UNCHANGED <<backend, start, expanded>>

\* a GET carries no form
FormsOf(method, forms) == IF method = "GET" THEN {EmptyForm} ELSE forms

Adicionar ==
  \E method \in {"GET", "POST"} : \E form \in FormsOf(method, AddForms) :
    /\ nreq < MaxOps
    /\ Respond(adicionar(method, form), Request("adicionar", method, 0, form, Now(0, 0)), NoView)

Editar ==
  \E gid \in Gids : \E method \in {"GET", "POST"} : \E form \in FormsOf(method, EditForms) :
    /\ nreq < MaxOps
    /\ Respond(editar(method, gid, form), Request("editar", method, gid, form, Now(0, 0)), NoView)

Excluir ==
  \E gid \in Gids :
    /\ nreq < MaxOps
    /\ Respond(excluir(gid), Request("excluir", "GET", gid, EmptyForm, Now(0, 0)), NoView)

TogglePago ==
  \E gid \in Gids :
    /\ nreq < MaxOps
    /\ Respond(toggle_pago(gid), Request("toggle_pago", "GET", gid, EmptyForm, Now(0, 0)), NoView)

Dashboard ==
  \E now \in Nows :
    /\ nreq < MaxOps
    /\ Respond(Same("render"), Request("dashboard", "GET", 0, EmptyForm, now), dashboard(gastos, now))

Next == Adicionar \/ Editar \/ Excluir \/ TogglePago \/ Dashboard

Spec == Init /\ [][Next]_vars

\* the recurrence expander alone, on every valid start date of ExpandYears
InitExpand ==
  /\ backend = "sqlite"
  /\ gastos = <<>> /\ categorias = {} /\ seq = 0
  /\ nreq = 0 /\ last = NoRequest /\ result = "none" /\ view = NoView
  /\ start \in {Some(StrftimeIso(d)) : d \in {x \in StartDates : ValidDate(x.year, x.month, x.day)}}
  /\ expanded = NotRun

Expand ==
  /\ ~expanded.run
  /\ LET e == monthly_until_year_end(start)
     IN expanded' = [run |-> TRUE, raised |-> e.raised, dates |-> e.dates]
  /\ UNCHANGED <<gastos, categorias, backend, seq, nreq, last, result, view, start>>

NextExpand == Expand

SpecExpand == InitExpand /\ [][NextExpand]_vars

----------------------------------------------------------------------------
(* Properties *)

RECURSIVE SumValor(_, _)
\* the sum of the amounts of the rows of g with an id in ids
SumValor(g, ids) ==
  IF ids = {} THEN 0
  ELSE LET id == CHOOSE i \in ids : TRUE
       IN g[id].valor + SumValor(g, ids \ {id})

IsWrite(req) == req.method = "POST" /\ req.op \in {"adicionar", "editar"}

\* C1: in the add-flow and the edit-flow, a submitted date, category or amount
\* that is missing or empty makes the request leave the expense records and the
\* category names exactly as they were.
C1_MissingInputRejected ==
  [][(IsWrite(last') /\ (Falsy(last'.form.data) \/ Falsy(last'.form.categoria)
                          \/ Falsy(last'.form.valor)))
       => (gastos' = gastos /\ categorias' = categorias)]_vars

\* the part of C1 the handlers do enforce: a missing or empty date in either flow,
\* and a missing or empty category in the add-flow
C1_DateOrAddCategoryRejected ==
  [][(IsWrite(last') /\ (Falsy(last'.form.data)
                          \/ (last'.op = "adicionar" /\ Falsy(last'.form.categoria))))
       => (gastos' = gastos /\ categorias' = categorias /\ result' \in {"rejected", "notfound"})]_vars

\* the dates C2 states for the start date d
ExpectedDates(d) ==
  [k \in 1..(13 - d.month) |->
     MkDate(d.year, d.month + k - 1,
            IF d.day < DaysInMonth(d.year, d.month + k - 1)
            THEN d.day ELSE DaysInMonth(d.year, d.month + k - 1))]

StartDate == StrptimeYMD(start[1])[1]

\* C2: for every canonical start date (y, m, d) the expander returns exactly
\* 13 - m dates, the k-th being (y, m + k, min(d, last day of month m + k)),
\* each a valid calendar date of the same year; a December start yields the
\* start date alone.
C2_ExpandExact ==
  expanded.run =>
    /\ ~expanded.raised
    /\ expanded.dates = ExpectedDates(StartDate)
    /\ \A i \in 1..Len(expanded.dates) :
         ValidDate(expanded.dates[i].year, expanded.dates[i].month, expanded.dates[i].day)
    /\ (StartDate.month = 12 => expanded.dates = <<StartDate>>)

\* C2 for the start dates before the last representable year
C2_ExpandExactBelowMaxYear ==
  (expanded.run /\ StartDate.year < MAXYEAR) =>
    /\ ~expanded.raised
    /\ expanded.dates = ExpectedDates(StartDate)

\* the date an add or edit form submits, once normalised
SubmittedDate(form) == StrptimeYMD(normalize_date(form.data)[1])[1]

AddAccepted(req, res) == req.op = "adicionar" /\ req.method = "POST" /\ res = "ok"

\* what C3 states of an accepted add, given when the form asks for replication
AddInserts(form, replicate) ==
  LET d == SubmittedDate(form)
      new == DOMAIN gastos' \ DOMAIN gastos
  IN /\ \A id \in DOMAIN gastos : id \in DOMAIN gastos' /\ gastos'[id] = gastos[id]
     /\ Cardinality(new) = IF replicate THEN 13 - d.month ELSE 1
     /\ IF replicate
        THEN \A m \in d.month..12 :
               Cardinality({id \in new : gastos'[id].data.year = d.year
                                         /\ gastos'[id].data.month = m}) = 1
        ELSE \A id \in new : gastos'[id].data = d
     /\ \A id \in new :
          /\ gastos'[id].categoria = form.categoria[1]
          /\ gastos'[id].descricao = OrElse(form.descricao, <<>>)
          /\ gastos'[id].valor = parse_brl_to_float(FormVal(form.valor))
          /\ gastos'[id].status = EmAberto

Requested(form) == form.replicar = Some(<<"1">>)

\* C3: an accepted add with date in month m inserts 13 - m records, one per month
\* through December, when replication is requested or the category equals "Fixo"
\* ignoring case, and one record on the submitted date otherwise; each carries the
\* submitted category, description and amount with status "Em aberto", and no
\* existing record changes.
C3_AddInserts ==
  [][AddAccepted(last', result')
       => AddInserts(last'.form, Requested(last'.form)
                                 \/ Lower(last'.form.categoria[1]) = FixoLower)]_vars

\* C3 as amended: the category is compared with "Fixo" ignoring case and the
\* white space around it.
C3_AddInsertsStripped ==
  [][AddAccepted(last', result')
       => AddInserts(last'.form, Requested(last'.form)
                                 \/ Lower(Strip(last'.form.categoria[1])) = FixoLower)]_vars

\* an add replicated on the category alone, with white space around it
C3_Witness ==
  /\ AddAccepted(last, result)
  /\ ~Requested(last.form)
  /\ last.form.categoria[1] # Strip(last.form.categoria[1])
  /\ Cardinality({id \in DOMAIN gastos : gastos[id].categoria = last.form.categoria[1]}) = 3

ById(req) == req.op \in {"editar", "excluir", "toggle_pago"}

\* C4: an edit, delete or toggle whose id matches no stored record completes
\* without failing and leaves records and category names unchanged.
C4_UnknownIdNoOp ==
  [][(ById(last') /\ last'.gid \notin DOMAIN gastos)
       => (result' = "notfound" /\ gastos' = gastos /\ categorias' = categorias)]_vars

\* a request addressed an id below a stored one, hence the id of a deleted row
C4_Witness ==
  /\ ById(last) /\ result = "notfound"
  /\ last.gid \notin DOMAIN gastos
  /\ \E id \in DOMAIN gastos : last.gid < id

OthersUnchanged(gid) ==
  \A id \in DOMAIN gastos \ {gid} : id \in DOMAIN gastos' /\ gastos'[id] = gastos[id]

\* C5: a toggle on an existing record changes its status and nothing else in the
\* store; an accepted edit replaces date, category, description and amount of
\* that record, keeping its status and every other record; a delete removes the
\* addressed record and nothing else.
C5_Frame ==
  [][/\ (last'.op = "toggle_pago" /\ last'.gid \in DOMAIN gastos)
          => /\ DOMAIN gastos' = DOMAIN gastos
             /\ OthersUnchanged(last'.gid)
             /\ gastos'[last'.gid] = [gastos[last'.gid] EXCEPT !.status = gastos'[last'.gid].status]
             /\ gastos'[last'.gid].status # gastos[last'.gid].status
             /\ categorias' = categorias
     /\ (last'.op = "editar" /\ last'.method = "POST" /\ result' = "ok")
          => /\ DOMAIN gastos' = DOMAIN gastos
             /\ OthersUnchanged(last'.gid)
             /\ gastos'[last'.gid] =
                  Gasto(SubmittedDate(last'.form), last'.form.categoria[1],
                        OrElse(last'.form.descricao, <<>>),
                        parse_brl_to_float(FormVal(last'.form.valor)),
                        gastos[last'.gid].status)
     /\ (last'.op = "excluir" /\ last'.gid \in DOMAIN gastos)
          => /\ DOMAIN gastos' = DOMAIN gastos \ {last'.gid}
             /\ OthersUnchanged(last'.gid)
             /\ categorias' = categorias]_vars

\* a paid record was edited and is still paid, beside another record
C5_Witness ==
  /\ last.op = "editar" /\ last.method = "POST" /\ result = "ok"
  /\ Cardinality(DOMAIN gastos) >= 2
  /\ gastos[last.gid].status = Pago
  /\ gastos[last.gid].data = SubmittedDate(last.form)

DictKeys(d) == {d[i][1] : i \in 1..Len(d)}

\* C6: the category totals never have an empty key: a record with an empty
\* category is accumulated under "Sem categoria".
C6_NoEmptyCategoryKey ==
  last.op = "dashboard" =>
    /\ <<>> \notin DictKeys(view.totais_categoria)
    /\ (\E id \in DOMAIN gastos : gastos[id].categoria = <<>>)
         => DictGet(view.totais_categoria, SemCategoria, 0)
              = SumValor(gastos, {id \in DOMAIN gastos :
                                    gastos[id].categoria \in {<<>>, SemCategoria}})

\* C7: the category of every stored record is a known category, and a known
\* category stays known.
C7_CategoriesKnown ==
  [][/\ \A id \in DOMAIN gastos' : gastos'[id].categoria \in categorias'
     /\ categorias \subseteq categorias']_vars

\* the part of C7 that holds: no request removes a category name
C7_CategoriesKept == [][categorias \subseteq categorias']_vars

YearMonth(id) == <<gastos[id].data.year, gastos[id].data.month>>
KeyOf(ym) == Pad4(ym[1]) \o <<"-">> \o Pad2(ym[2])

\* C8: monthTotals[k] is the sum over the records of month k, categoryTotals[c]
\* the sum over the records of category c, the year total the sum over the
\* records of the current year, and the month total the sum over the records of
\* the current year and month, which is monthTotals of the current month, or 0.
C8_Totals ==
  last.op = "dashboard" =>
    LET ids == DOMAIN gastos
        now == last.now
    IN /\ DictKeys(view.totais_mes) = {KeyOf(YearMonth(id)) : id \in ids}
       /\ \A id \in ids :
            DictGet(view.totais_mes, KeyOf(YearMonth(id)), 0)
              = SumValor(gastos, {j \in ids : YearMonth(j) = YearMonth(id)})
       /\ DictKeys(view.totais_categoria) = {gastos[id].categoria : id \in ids}
       /\ \A id \in ids :
            DictGet(view.totais_categoria, gastos[id].categoria, 0)
              = SumValor(gastos, {j \in ids : gastos[j].categoria = gastos[id].categoria})
       /\ view.total_ano = SumValor(gastos, {j \in ids : gastos[j].data.year = now.year})
       /\ view.total_mes = SumValor(gastos, {j \in ids : YearMonth(j) = <<now.year, now.month>>})
       /\ view.total_mes = DictGet(view.totais_mes, KeyOf(<<now.year, now.month>>), 0)

\* the dashboard of a month that also holds a record of the same month number in
\* another year, which the month total leaves out
C8_Witness ==
  /\ last.op = "dashboard"
  /\ \E i, j \in DOMAIN gastos :
       /\ YearMonth(i) = <<last.now.year, last.now.month>>
       /\ gastos[j].data.month = last.now.month /\ gastos[j].data.year # last.now.year
       /\ gastos[j].valor > 0
  /\ view.total_mes > 0

\* the month a "YYYY-MM" key names, counted from year 0
MonthIndex(k) == DigitsVal(SubSeq(k, 1, 4), 0) * 12 + DigitsVal(SubSeq(k, 6, 7), 0)

\* C9: monthTotals comes in strictly ascending month order and categoryTotals in
\* non-increasing order of total; each month and each category of the store
\* appears exactly once.
C9_Ordering ==
  last.op = "dashboard" =>
    LET ms == view.totais_mes
        cs == view.totais_categoria
    IN /\ \A i \in 1..(Len(ms) - 1) : MonthIndex(ms[i][1]) < MonthIndex(ms[i + 1][1])
       /\ \A i \in 1..(Len(cs) - 1) : cs[i][2] >= cs[i + 1][2]
       /\ \A i, j \in 1..Len(cs) : cs[i][1] = cs[j][1] => i = j
       /\ \A id \in DOMAIN gastos :
            /\ \E i \in 1..Len(ms) : ms[i][1] = KeyOf(YearMonth(id))
            /\ \E i \in 1..Len(cs) : cs[i][1] = gastos[id].categoria

\* a dashboard whose rows arrive out of month order and out of total order
C9_Witness ==
  /\ last.op = "dashboard"
  /\ \E i, j \in DOMAIN gastos :
       /\ i < j
       /\ MonthIndex(KeyOf(YearMonth(j))) < MonthIndex(KeyOf(YearMonth(i)))
  /\ \E i, j \in DOMAIN gastos :
       /\ i < j
       /\ gastos[i].categoria # gastos[j].categoria
       /\ DictGet(view.totais_categoria, gastos[i].categoria, 0)
            < DictGet(view.totais_categoria, gastos[j].categoria, 0)
       /\ \A k \in DOMAIN gastos : k < i => gastos[k].categoria # gastos[j].categoria

\* the aggregator, run in the month of the record r alone, counts r as paid
CountedPaid(r) ==
  dashboard(<<r>>, Now(r.data.year, r.data.month)).qtd_mes_pago = 1

\* C10: a toggle turns a record the aggregator counts as paid into one it counts
\* as pending and the reverse, and a second toggle restores the classification.
C10_ToggleFlipsPaid ==
  [][(last'.op = "toggle_pago" /\ last'.gid \in DOMAIN gastos)
       => LET before == gastos[last'.gid]
              after == gastos'[last'.gid]
              again == [after EXCEPT !.status = ToggleStatus(after.status)]
          IN /\ CountedPaid(before) # CountedPaid(after)
             /\ CountedPaid(again) = CountedPaid(before)]_vars

====
